---- MODULE Spec2Model ----
(***************************************************************************)
(* Model of the data access and scoring layer of esgextract-fe:            *)
(*   src/utils/data_loader.py   load_data, get_companies, get_years,       *)
(*                              get_latest_year_data,                      *)
(*                              get_company_trend_data,                    *)
(*                              get_multi_company_data,                    *)
(*                              get_all_company_data_by_year               *)
(*   src/pages/companyReport.py calculate_esg_scores,                      *)
(*                              show_company_comparison_analysis           *)
(*                                                                         *)
(* Python values that can be an int, a str or None (years) are tagged      *)
(* records; a str is the sequence of its characters, the digits being      *)
(* 0..9 and any other character a number above 9, and int() parses it.     *)
(* A DataFrame is the sequence of its rows; a DataFrame built from no rows *)
(* has no columns.  Scores are exact rationals (IEEE rounding is not       *)
(* modelled) extended with NaN.                                            *)
(***************************************************************************)
EXTENDS Integers, Sequences, FiniteSets, TLC

VARIABLES
    file,        \* the backing data.json: [status, data]
    changedAt,   \* the time data.json was last written
    now,         \* wall clock, seconds
    reads,       \* number of times data.json was opened
    loadCache,   \* st.cache_data entry of load_data
    latestCache, \* st.cache_data entry of get_latest_year_data
    trendCache,  \* st.cache_data entries of get_company_trend_data, by argument
    multiCache,  \* st.cache_data entries of get_multi_company_data, by arguments
    op,          \* the last operation called
    arg,         \* its arguments
    ret,         \* its return value
    raised,      \* the exception that escaped it, "none" if it returned
    readStatus,  \* what the last operation found when it opened data.json, "none" if it did not
    age,         \* seconds since the load_data entry the last operation was served was stored, -1 if none was
    target,      \* the target year the last snapshot query compared against
    calledAt,    \* the time of the last operation
    table,       \* the DataFrame handed to calculate_esg_scores
    scored,      \* the DataFrame it returned
    order,       \* the indexer its sort computed: order[k] is the input position of output row k
    scoreStatus, \* "idle" before the call, then "returned" or the exception raised
    sessions     \* per browser session, the load_data() call its script thread is in

vars == <<file, changedAt, now, reads, loadCache, latestCache, trendCache, multiCache,
          op, arg, ret, raised, readStatus, age, target, calledAt, table, scored, order,
                   scoreStatus,
          sessions>>

storeVars == <<file, changedAt, now, reads, loadCache, latestCache, trendCache, multiCache,
               op, arg, ret, raised, readStatus, age, target, calledAt>>

scoreVars == <<table, scored, order, scoreStatus>>

----------------------------------------------------------------------------
(* Bounds *)

MaxRecords == 2      \* records in a generated data.json
MaxYears == 2        \* entries of a generated metadata year list
MaxCompanies == 2    \* length of a `companies` argument
MaxRows == 2         \* rows of a table handed to calculate_esg_scores
MaxTime == 450       \* the clock stops here
MaxReads == 3        \* file reads per behaviour
MaxSessions == 2     \* browser sessions calling load_data() at once

(* Program constants *)

TTL == 300           \* @st.cache_data(ttl=300)

----------------------------------------------------------------------------
(* Python values *)

IntVal(n) == [kind |-> "int", n |-> n, s |-> <<>>]
StrVal(s) == [kind |-> "str", n |-> 0, s |-> s]
NoneVal == [kind |-> "none", n |-> 0, s |-> <<>>]

RECURSIVE ParseInt(_)
\* int(s) for a str of decimal digits
ParseInt(s) ==
    IF s = <<>> THEN 0
    ELSE 10 * ParseInt(SubSeq(s, 1, Len(s) - 1)) + s[Len(s)]

\* int(s) accepts a str of one or more decimal digits
IsNumeric(s) == s # <<>> /\ \A i \in 1..Len(s) : s[i] \in 0..9

\* the exception int(v) raises, "none" when it returns
IntFault(v) ==
    CASE v.kind = "int" -> "none"
      [] v.kind = "str" -> (IF IsNumeric(v.s) THEN "none" ELSE "ValueError")
      [] OTHER -> "TypeError"

\* the first exception of a sequence of evaluations, "none" when all return
FirstFault(faults) ==
    IF \A i \in 1..Len(faults) : faults[i] = "none" THEN "none"
    ELSE faults[CHOOSE i \in 1..Len(faults) :
                    faults[i] # "none" /\ \A j \in 1..(i - 1) : faults[j] = "none"]

\* int(v): parses a str, is the identity on an int
PyInt(v) == IF v.kind = "str" THEN ParseInt(v.s) ELSE v.n

PyEqIntIgnored(v, n) == TRUE

\* v == n for an int n: a str or None never equals an int
PyEqInt(v, n) == v.kind = "int" /\ v.n = n

RECURSIVE StrLess(_, _)
\* s < t for two str: lexicographic
StrLess(s, t) ==
    IF t = <<>> THEN FALSE
    ELSE IF s = <<>> THEN TRUE
    ELSE IF s[1] # t[1] THEN s[1] < t[1]
    ELSE StrLess(Tail(s), Tail(t))

\* max(years) without key=int, on a list of str: the lexicographic maximum
RECURSIVE LexMaxFrom(_, _, _)
LexMaxFrom(years, i, best) ==
    IF i > Len(years) THEN best
    ELSE LexMaxFrom(years, i + 1,
                    IF StrLess(best.s, years[i].s) THEN years[i] ELSE best)

RECURSIVE MaxByIntFrom(_, _, _)
MaxByIntFrom(years, i, best) ==
    IF i > Len(years) THEN best
    ELSE MaxByIntFrom(years, i + 1,
                      IF PyInt(years[i]) > PyInt(best) THEN years[i] ELSE best)

MaxByIntLex(years) == LexMaxFrom(years, 2, years[1])

\* max(years, key=int): the first entry whose int() is greatest
MaxByInt(years) == MaxByIntFrom(years, 2, years[1])

----------------------------------------------------------------------------
(* The parsed data.json *)

\* dict.get(key, default)
Get(d, key, default) == IF key \in DOMAIN d THEN d[key] ELSE default

\* {} : no metadata, no records
EmptyData ==
    [isDict |-> TRUE, hasMeta |-> FALSE, years |-> <<>>, companies |-> <<>>,
     records |-> <<>>]

\* a top-level JSON value that is not an object, such as []
NotADict ==
    [isDict |-> FALSE, hasMeta |-> FALSE, years |-> <<>>, companies |-> <<>>,
     records |-> <<>>]

\* a value under a record key that is not an object, such as a number
NotARecord == [json |-> "number"]

\* the value has .get
IsRecord(rec) == "json" \notin DOMAIN rec

\* JSON null in a numeric field (the measurements are not negative)
Null == -1

\* data.get('metadata', {}): a list has no attribute 'get'
MetaFault(data) == IF data.isDict THEN "none" ELSE "AttributeError"

\* data.get('metadata', {}).get('years', [])
MetaYears(data) == IF data.hasMeta THEN data.years ELSE <<>>

\* data.get('metadata', {}).get('companies', [])
MetaCompanies(data) == IF data.hasMeta THEN data.companies ELSE <<>>

\* the row a query builds from one record
ProjectRow(rec, company, year) ==
    [Company |-> company,
     Year |-> year,
     AccidentRate |-> Get(rec, "accident_rate", 0),
     Fatalities |-> Get(rec, "fatality_rate", 0),
     SafetyAudit |-> Get(rec, "safety_inspection_compliance_rate", 0),
     Carbon |-> Get(rec, "carbon_emissions", 0),
     Energy |-> Get(rec, "energy_consumption", 0),
     RenewableRatio |-> Get(rec, "renewable_energy_ratio", 0),
     RenewableAmount |-> Get(rec, "renewable_energy_amount", 0),
     Waste |-> Get(rec, "construction_waste", 0),
     Recycling |-> Get(rec, "recycling_rate", 0)]

----------------------------------------------------------------------------
(* Tables *)

\* pd.DataFrame() and pd.DataFrame([]): no rows, no columns
EmptyTable == <<>>

Injective(p) == \A i, j \in DOMAIN p : p[i] = p[j] => i = j

\* the permutations of 1..n
Perms(n) == {p \in [1..n -> 1..n] : Injective(p)}

PermuteFirst(rows, p) == [i \in 1..Len(rows) |-> rows[p[1]]]

\* rows.iloc[p] with the index reset: row i of the result is row p[i] of rows
Permute(rows, p) == [i \in 1..Len(rows) |-> rows[p[i]]]

\* the comparison sort_values('Year') makes between two cells
YearLess(a, b) ==
    IF a.kind = "int" /\ b.kind = "int" THEN a.n < b.n ELSE StrLess(a.s, b.s)

\* a column holding both int and str cannot be sorted: TypeError
YearsComparable(rows) ==
    \A i, j \in 1..Len(rows) : rows[i].Year.kind = rows[j].Year.kind

SortByYearSkipped(rows) == {rows}

\* df.sort_values('Year'): default kind 'quicksort', which is not stable, so
\* rows with equal Year may come out in any order
SortByYear(rows) ==
    {Permute(rows, p) : p \in
        {q \in Perms(Len(rows)) :
            \A i \in 1..(Len(rows) - 1) :
                ~YearLess(rows[q[i + 1]].Year, rows[q[i]].Year)}}

\* rows = []; for key, company_data in data.items(): if keep: rows.append(row)
\* (the 'metadata' key is skipped: records holds the other items in file order);
\* keep[i] is the test on the i-th record and rows[i] the row built from it
SelectRows(keep, rows) ==
    LET F[i \in 0..Len(rows)] ==
            IF i = 0 THEN <<>>
            ELSE F[i - 1] \o (IF keep[i] THEN <<rows[i]>> ELSE <<>>)
    IN F[Len(rows)]

\* x in companies
InList(x, list) == \E i \in 1..Len(list) : list[i] = x

----------------------------------------------------------------------------
(* Query bodies: what each function computes from the loaded data *)

LatestTarget(data) == PyInt(MaxByInt(MetaYears(data)))

LatestYearBodyUnfiltered(data) ==
    IF MetaYears(data) = <<>> THEN EmptyTable
    ELSE [i \in 1..Len(data.records) |->
             ProjectRow(data.records[i],
                        Get(data.records[i], "company_name", ""),
                        Get(data.records[i], "year", StrVal(<<>>)))]

\* get_latest_year_data, lines 59-88
LatestYearBody(data) ==
    IF MetaYears(data) = <<>> THEN EmptyTable
    ELSE SelectRows(
             [i \in 1..Len(data.records) |->
                 PyEqInt(Get(data.records[i], "year", NoneVal), LatestTarget(data))],
             [i \in 1..Len(data.records) |->
                 ProjectRow(data.records[i],
                            Get(data.records[i], "company_name", ""),
                            Get(data.records[i], "year", StrVal(<<>>)))])

\* the exception get_latest_year_data raises before it returns: get_years on
\* a list (line 49), int() of a year entry (line 65), .get on a record value
\* that is not an object (line 72)
LatestYearFault(data) ==
    IF MetaFault(data) # "none" THEN MetaFault(data)
    ELSE IF MetaYears(data) = <<>> THEN "none"
    ELSE FirstFault([i \in 1..Len(MetaYears(data)) |-> IntFault(MetaYears(data)[i])]
                    \o [i \in 1..Len(data.records) |->
                           IF IsRecord(data.records[i]) THEN "none"
                           ELSE "AttributeError"])

\* the exception get_company_trend_data raises before it sorts: data.items()
\* on a list (line 104), .get on a record value that is not an object (line 108)
TrendFault(data) ==
    IF ~data.isDict THEN "AttributeError"
    ELSE FirstFault([i \in 1..Len(data.records) |->
                        IF IsRecord(data.records[i]) THEN "none"
                        ELSE "AttributeError"])

\* get_company_trend_data, lines 101-122: the rows before sorting
TrendRows(data, company) ==
    SelectRows(
        [i \in 1..Len(data.records) |->
            Get(data.records[i], "company_name", "") = company],
        [i \in 1..Len(data.records) |->
            ProjectRow(data.records[i],
                       Get(data.records[i], "company_name", ""),
                       Get(data.records[i], "year", StrVal(<<>>)))])

\* get_multi_company_data, lines 143-145: the year compared against
MultiYear(data, year) ==
    IF year.kind = "none"
    THEN (IF MetaYears(data) # <<>> THEN MaxByInt(MetaYears(data))
          ELSE StrVal(<<2, 0, 2, 5>>))
    ELSE year

\* the exception get_multi_company_data raises: get_years or data.items() on
\* a list (lines 144, 148), int() of a year entry (line 145), .get on a record
\* value that is not an object (line 152), int(year) once a record of a listed
\* company is met (line 155: `and` evaluates int(year) only then)
MultiFault(data, companies, year) ==
    IF ~data.isDict THEN "AttributeError"
    ELSE FirstFault(
             (IF year.kind = "none"
              THEN [i \in 1..Len(MetaYears(data)) |-> IntFault(MetaYears(data)[i])]
              ELSE <<>>)
             \o [i \in 1..Len(data.records) |->
                    IF ~IsRecord(data.records[i]) THEN "AttributeError"
                    ELSE IF InList(Get(data.records[i], "company_name", ""), companies)
                    THEN IntFault(MultiYear(data, year))
                    ELSE "none"])

\* the rows of one company for the year, in file order
MultiRowsOf(data, c, year) ==
    SelectRows(
        [i \in 1..Len(data.records) |->
            /\ Get(data.records[i], "company_name", "") = c
            /\ PyEqInt(Get(data.records[i], "year", NoneVal),
                       PyInt(MultiYear(data, year)))],
        [i \in 1..Len(data.records) |->
            ProjectRow(data.records[i],
                       Get(data.records[i], "company_name", ""),
                       Get(data.records[i], "year", NoneVal))])

SelectMultiByInput(data, companies, year) ==
    LET F[i \in 0..Len(companies)] ==
            IF i = 0 THEN <<>>
            ELSE F[i - 1] \o (IF InList(companies[i], SubSeq(companies, 1, i - 1))
                              THEN <<>> ELSE MultiRowsOf(data, companies[i], year))
    IN F[Len(companies)]

SelectMultiPerListed(data, companies, year) ==
    LET F[i \in 0..Len(companies)] ==
            IF i = 0 THEN <<>> ELSE F[i - 1] \o MultiRowsOf(data, companies[i], year)
    IN F[Len(companies)]

\* get_multi_company_data, lines 147-171
SelectMulti(data, companies, year) ==
    SelectRows(
        [i \in 1..Len(data.records) |->
            /\ InList(Get(data.records[i], "company_name", ""), companies)
            /\ PyEqInt(Get(data.records[i], "year", NoneVal),
                       PyInt(MultiYear(data, year)))],
        [i \in 1..Len(data.records) |->
            ProjectRow(data.records[i],
                       Get(data.records[i], "company_name", ""),
                       Get(data.records[i], "year", NoneVal))])

\* the exception get_all_company_data_by_year raises: data.items() on a list
\* (line 196), .get on a record value that is not an object and int(year), for
\* the first record (line 200)
AllByYearFault(data, year) ==
    IF ~data.isDict THEN "AttributeError"
    ELSE FirstFault([i \in 1..Len(data.records) |->
                        IF ~IsRecord(data.records[i]) THEN "AttributeError"
                        ELSE IntFault(year)])

\* get_all_company_data_by_year, lines 193-216
AllByYearBody(data, year) ==
    SelectRows(
        [i \in 1..Len(data.records) |->
            PyEqInt(Get(data.records[i], "year", NoneVal), PyInt(year))],
        [i \in 1..Len(data.records) |->
            ProjectRow(data.records[i],
                       Get(data.records[i], "company_name", ""),
                       Get(data.records[i], "year", StrVal(<<>>)))])

----------------------------------------------------------------------------
(* st.cache_data(ttl=300): one entry per argument tuple, kept for TTL seconds *)

CacheEntryAny(cache, key) == CHOOSE e \in cache : TRUE

CacheEntry(cache, key) == CHOOSE e \in cache : e.key = key

CacheHitNoExpiry(cache, key) == \E e \in cache : e.key = key

\* an entry stored at time t is served while now < t + ttl
CacheHit(cache, key) == \E e \in cache : e.key = key /\ now < e.at + TTL

CachePutBeside(cache, key, value) ==
    cache \cup {[key |-> key, at |-> now, value |-> value]}

CachePut(cache, key, value) ==
    {e \in cache : e.key # key} \cup {[key |-> key, at |-> now, value |-> value]}

----------------------------------------------------------------------------
(* load_data *)

\* the body of load_data, lines 19-29: open, json.load, and the two handlers
ReadFile ==
    CASE file.status = "ok" -> [raised |-> "none", value |-> file.data]
      [] file.status = "missing" -> [raised |-> "none", value |-> EmptyData]
      [] file.status = "malformed" -> [raised |-> "none", value |-> EmptyData]
      [] file.status = "denied" -> [raised |-> "PermissionError", value |-> EmptyData]
      [] file.status = "undecodable" -> [raised |-> "UnicodeDecodeError", value |-> EmptyData]

LoadRetryingEmpty ==
    IF CacheHit(loadCache, <<>>) /\ CacheEntry(loadCache, <<>>).value # EmptyData
    THEN [raised |-> "none", value |-> CacheEntry(loadCache, <<>>).value,
          cache |-> loadCache, read |-> FALSE]
    ELSE [raised |-> ReadFile.raised, value |-> ReadFile.value,
          cache |-> IF ReadFile.raised = "none"
                    THEN CachePut(loadCache, <<>>, ReadFile.value)
                    ELSE loadCache,
          read |-> TRUE]

\* a call of the memoized load_data(): a hit serves the entry, a miss runs the
\* body and stores what it returned; an exception stores nothing
Load ==
    IF CacheHit(loadCache, <<>>)
    THEN [raised |-> "none", value |-> CacheEntry(loadCache, <<>>).value,
          cache |-> loadCache, read |-> FALSE]
    ELSE [raised |-> ReadFile.raised, value |-> ReadFile.value,
          cache |-> IF ReadFile.raised = "none"
                    THEN CachePut(loadCache, <<>>, ReadFile.value)
                    ELSE loadCache,
          read |-> TRUE]

\* the effect of the load_data() call a handler starts with
Loaded(L) ==
    /\ L.read => reads < MaxReads
    /\ loadCache' = L.cache
    /\ reads' = IF L.read THEN reads + 1 ELSE reads
    /\ readStatus' = IF L.read THEN file.status ELSE "none"
    /\ age' = IF L.read THEN -1 ELSE now - CacheEntry(loadCache, <<>>).at
    /\ calledAt' = now

CallLoadData ==
    /\ op' = "load_data"
    /\ arg' = <<>>
    /\ Loaded(Load)
    /\ raised' = Load.raised
    /\ ret' = Load.value
    /\ target' = NoneVal
    /\ UNCHANGED <<file, changedAt, now, latestCache, trendCache, multiCache, scoreVars, sessions>>

\* get_companies, lines 38-39
CallGetCompanies ==
    /\ op' = "get_companies"
    /\ arg' = <<>>
    /\ Loaded(Load)
    /\ raised' = IF Load.raised # "none" THEN Load.raised ELSE MetaFault(Load.value)
    /\ ret' = MetaCompanies(Load.value)
    /\ target' = NoneVal
    /\ UNCHANGED <<file, changedAt, now, latestCache, trendCache, multiCache, scoreVars, sessions>>

\* get_years, lines 48-49
CallGetYears ==
    /\ op' = "get_years"
    /\ arg' = <<>>
    /\ Loaded(Load)
    /\ raised' = IF Load.raised # "none" THEN Load.raised ELSE MetaFault(Load.value)
    /\ ret' = MetaYears(Load.value)
    /\ target' = NoneVal
    /\ UNCHANGED <<file, changedAt, now, latestCache, trendCache, multiCache, scoreVars, sessions>>

----------------------------------------------------------------------------
(* The memoized queries *)

\* a hit of the query's own cache: the stored table is returned, nothing runs
Served(cache, key) ==
    /\ CacheHit(cache, key)
    /\ ret' = CacheEntry(cache, key).value
    /\ raised' = "none"
    /\ readStatus' = "none"
    /\ age' = -1
    /\ calledAt' = now
    /\ target' = NoneVal
    /\ UNCHANGED <<loadCache, reads, latestCache, trendCache, multiCache>>

\* load_data() raised inside a query: the exception escapes, nothing is stored
Escaped(L) ==
    /\ L.raised # "none"
    /\ Loaded(L)
    /\ raised' = L.raised
    /\ ret' = EmptyTable
    /\ target' = NoneVal
    /\ UNCHANGED <<latestCache, trendCache, multiCache>>

\* the body raised after load_data() returned: the exception escapes, the
\* query stores nothing
Faulted(L, fault) ==
    /\ L.raised = "none"
    /\ fault # "none"
    /\ Loaded(L)
    /\ raised' = fault
    /\ ret' = EmptyTable
    /\ target' = NoneVal
    /\ UNCHANGED <<latestCache, trendCache, multiCache>>

CallGetLatestYearData ==
    /\ op' = "get_latest_year_data"
    /\ arg' = <<>>
    /\ \/ Served(latestCache, <<>>)
       \/ /\ ~CacheHit(latestCache, <<>>)
          /\ Escaped(Load)
       \/ /\ ~CacheHit(latestCache, <<>>)
          /\ Faulted(Load, LatestYearFault(Load.value))
       \/ /\ ~CacheHit(latestCache, <<>>)
          /\ Load.raised = "none"
          /\ LatestYearFault(Load.value) = "none"
          /\ Loaded(Load)
          /\ raised' = "none"
          /\ ret' = LatestYearBody(Load.value)
          /\ target' = IF MetaYears(Load.value) = <<>> THEN NoneVal
                       ELSE IntVal(LatestTarget(Load.value))
          /\ latestCache' = CachePut(latestCache, <<>>, LatestYearBody(Load.value))
          /\ UNCHANGED <<trendCache, multiCache>>
    /\ UNCHANGED <<file, changedAt, now, scoreVars, sessions>>

CallGetCompanyTrendData(company) ==
    /\ op' = "get_company_trend_data"
    /\ arg' = <<company>>
    /\ \/ Served(trendCache, <<company>>)
       \/ /\ ~CacheHit(trendCache, <<company>>)
          /\ Escaped(Load)
       \/ /\ ~CacheHit(trendCache, <<company>>)
          /\ Faulted(Load, TrendFault(Load.value))
       \/ /\ ~CacheHit(trendCache, <<company>>)
          /\ Load.raised = "none"
          /\ TrendFault(Load.value) = "none"
          /\ Loaded(Load)
          /\ target' = NoneVal
          /\ LET rows == TrendRows(Load.value, company)
             IN IF rows = <<>>
                THEN /\ raised' = "none"
                     /\ ret' = rows
                     /\ trendCache' = CachePut(trendCache, <<company>>, rows)
                ELSE IF ~YearsComparable(rows)
                THEN /\ raised' = "TypeError"
                     /\ ret' = EmptyTable
                     /\ trendCache' = trendCache
                ELSE \E sorted \in SortByYear(rows) :
                     /\ raised' = "none"
                     /\ ret' = sorted
                     /\ trendCache' = CachePut(trendCache, <<company>>, sorted)
          /\ UNCHANGED <<latestCache, multiCache>>
    /\ UNCHANGED <<file, changedAt, now, scoreVars, sessions>>

CallGetMultiCompanyData(companies, year) ==
    /\ op' = "get_multi_company_data"
    /\ arg' = <<companies, year>>
    /\ \/ Served(multiCache, <<companies, year>>)
       \/ /\ ~CacheHit(multiCache, <<companies, year>>)
          /\ Escaped(Load)
       \/ /\ ~CacheHit(multiCache, <<companies, year>>)
          /\ Faulted(Load, MultiFault(Load.value, companies, year))
       \/ /\ ~CacheHit(multiCache, <<companies, year>>)
          /\ Load.raised = "none"
          /\ MultiFault(Load.value, companies, year) = "none"
          /\ Loaded(Load)
          /\ raised' = "none"
          /\ ret' = SelectMulti(Load.value, companies, year)
          \* int(year) is evaluated only for a record of a listed company
          /\ target' = IF IntFault(MultiYear(Load.value, year)) = "none"
                       THEN IntVal(PyInt(MultiYear(Load.value, year)))
                       ELSE NoneVal
          /\ multiCache' = CachePut(multiCache, <<companies, year>>,
                                    SelectMulti(Load.value, companies, year))
          /\ UNCHANGED <<latestCache, trendCache>>
    /\ UNCHANGED <<file, changedAt, now, scoreVars, sessions>>

\* not memoized
CallGetAllCompanyDataByYear(year) ==
    /\ op' = "get_all_company_data_by_year"
    /\ arg' = <<year>>
    /\ Loaded(Load)
    /\ LET fault == IF Load.raised # "none" THEN Load.raised
                    ELSE AllByYearFault(Load.value, year)
       IN /\ raised' = fault
          /\ ret' = IF fault = "none" THEN AllByYearBody(Load.value, year)
                    ELSE EmptyTable
          /\ target' = IF fault = "none" /\ IntFault(year) = "none"
                       THEN IntVal(PyInt(year)) ELSE NoneVal
    /\ UNCHANGED <<file, changedAt, now, latestCache, trendCache, multiCache, scoreVars, sessions>>

----------------------------------------------------------------------------
(* load_data() called from several sessions: Streamlit runs the script of    *)
(* each browser session in a thread of its own, and all share the cache      *)

Sessions == 1..MaxSessions

\* a session that has not called load_data() yet
Waiting == [pc |-> "idle", data |-> EmptyData, raised |-> "none"]

\* the call starts with the lookup of the entry: a hit returns it
SessionLookup(s) ==
    /\ sessions[s].pc = "idle"
    /\ sessions' = [sessions EXCEPT ![s] =
           IF CacheHit(loadCache, <<>>)
           THEN [pc |-> "done", data |-> CacheEntry(loadCache, <<>>).value,
                 raised |-> "none"]
           ELSE [pc |-> "missed", data |-> EmptyData, raised |-> "none"]]
    /\ UNCHANGED <<storeVars, scoreVars>>

\* after a miss the body runs in the session's thread, lines 19-29: `data` is
\* a local, built by json.load from the file as it is now
SessionRead(s) ==
    /\ sessions[s].pc = "missed"
    /\ reads < MaxReads
    /\ reads' = reads + 1
    /\ sessions' = [sessions EXCEPT ![s] =
           IF ReadFile.raised # "none"
           THEN [pc |-> "done", data |-> EmptyData, raised |-> ReadFile.raised]
           ELSE [pc |-> "read", data |-> ReadFile.value, raised |-> "none"]]
    /\ UNCHANGED <<file, changedAt, now, loadCache, latestCache, trendCache, multiCache,
                   op, arg, ret, raised, readStatus, age, target, calledAt, scoreVars>>

\* the value the body returned replaces the entry and is handed to the caller
SessionStore(s) ==
    /\ sessions[s].pc = "read"
    /\ loadCache' = CachePut(loadCache, <<>>, sessions[s].data)
    /\ sessions' = [sessions EXCEPT ![s].pc = "done"]
    /\ UNCHANGED <<file, changedAt, now, reads, latestCache, trendCache, multiCache,
                   op, arg, ret, raised, readStatus, age, target, calledAt, scoreVars>>

----------------------------------------------------------------------------
(* The environment: time passes, data.json is replaced *)

TickSteps == {149, 150}

Tick(d) ==
    /\ now + d <= MaxTime
    /\ now' = now + d
    /\ UNCHANGED <<file, changedAt, reads, loadCache, latestCache, trendCache, multiCache,
                   op, arg, ret, raised, readStatus, age, target, calledAt, table, scored, order,
                   scoreStatus,
                   sessions>>

WriteFile(f) ==
    /\ f # file
    /\ file' = f
    /\ changedAt' = now
    /\ UNCHANGED <<now, reads, loadCache, latestCache, trendCache, multiCache,
                   op, arg, ret, raised, readStatus, age, target, calledAt, table, scored, order,
                   scoreStatus,
                   sessions>>

----------------------------------------------------------------------------
(* Numbers of the scoring engine: exact rationals, and NaN *)

RECURSIVE GCD(_, _)
GCD(a, b) == IF b = 0 THEN a ELSE GCD(b, a % b)

Abs(x) == IF x < 0 THEN -x ELSE x

NaN == [nan |-> TRUE, n |-> 0, d |-> 1]

\* n/d in lowest terms, d > 0
Frac(n, d) ==
    [nan |-> FALSE, n |-> n \div GCD(Abs(n), d), d |-> d \div GCD(Abs(n), d)]

Num(k) == Frac(k, 1)

RAdd(a, b) == IF a.nan \/ b.nan THEN NaN ELSE Frac(a.n * b.d + b.n * a.d, a.d * b.d)

RSub(a, b) == IF a.nan \/ b.nan THEN NaN ELSE Frac(a.n * b.d - b.n * a.d, a.d * b.d)

RMul(a, b) == IF a.nan \/ b.nan THEN NaN ELSE Frac(a.n * b.n, a.d * b.d)

\* a < b; NaN compares false with everything
RLess(a, b) == ~a.nan /\ ~b.nan /\ a.n * b.d < b.n * a.d

\* value / max for a column of non-negative numbers: the maximum is 0 only when
\* every value is 0, and pandas gives 0/0 = NaN without raising
Ratio(value, max) == IF max = 0 THEN NaN ELSE Frac(value, max)

----------------------------------------------------------------------------
(* calculate_esg_scores, src/pages/companyReport.py lines 554-589 *)

\* Series.max() of the column `name`
ColMax(rows, name) ==
    CHOOSE m \in {rows[i][name] : i \in 1..Len(rows)} :
        \A i \in 1..Len(rows) : rows[i][name] <= m

\* Python max(a, b)
PyMax(a, b) == IF b > a THEN b ELSE a

ReverseScoreFull(value, denominator) ==
    RSub(Num(100), RMul(Ratio(value, denominator), Num(100)))

ReverseScoreUnscaled(value, denominator) ==
    RSub(Num(100), Ratio(value, denominator))

\* 100 - (value / denominator) * 50
ReverseScore(value, denominator) ==
    RSub(Num(100), RMul(Ratio(value, denominator), Num(50)))

\* line 560
AccidentRateScore(rows, r) == ReverseScore(r.AccidentRate, ColMax(rows, "AccidentRate"))

FatalityScoreUnguarded(rows, r) == ReverseScore(r.Fatalities, ColMax(rows, "Fatalities"))

\* line 561: the denominator is max(Fatalities.max(), 1)
FatalityScore(rows, r) == ReverseScore(r.Fatalities, PyMax(ColMax(rows, "Fatalities"), 1))

\* line 562
SafetyAuditScore(r) == Num(r.SafetyAudit)

\* line 566
CarbonEmissionsScore(rows, r) == ReverseScore(r.Carbon, ColMax(rows, "Carbon"))

\* line 567
EnergyScore(rows, r) == ReverseScore(r.Energy, ColMax(rows, "Energy"))

RenewableEnergyScoreCapped(r) ==
    IF 3 * r.RenewableRatio > 200 THEN Num(100)
    ELSE RMul(Num(r.RenewableRatio), Frac(3, 2))

\* line 568: ratio * 1.5
RenewableEnergyScore(r) == RMul(Num(r.RenewableRatio), Frac(3, 2))

\* line 569
WasteScore(rows, r) == ReverseScore(r.Waste, ColMax(rows, "Waste"))

\* line 570
RecyclingScore(r) == Num(r.Recycling)

SafetyScoreOfFour(rows, r) ==
    RMul(RAdd(RAdd(AccidentRateScore(rows, r), FatalityScore(rows, r)),
              SafetyAuditScore(r)),
         Frac(1, 4))

\* lines 573-576
SafetyScore(rows, r) ==
    RMul(RAdd(RAdd(AccidentRateScore(rows, r), FatalityScore(rows, r)),
              SafetyAuditScore(r)),
         Frac(1, 3))

EnvironmentalScoreWithAmount(rows, r) ==
    RMul(RAdd(RAdd(RAdd(RAdd(RAdd(CarbonEmissionsScore(rows, r), EnergyScore(rows, r)),
                             RenewableEnergyScore(r)),
                        WasteScore(rows, r)),
                   RecyclingScore(r)),
              Num(r.RenewableAmount)),
         Frac(1, 5))

\* lines 578-581
EnvironmentalScore(rows, r) ==
    RMul(RAdd(RAdd(RAdd(RAdd(CarbonEmissionsScore(rows, r), EnergyScore(rows, r)),
                        RenewableEnergyScore(r)),
                   WasteScore(rows, r)),
              RecyclingScore(r)),
         Frac(1, 5))

\* line 584: Safety Score * 0.4 + Environmental Score * 0.6
OverallScore(rows, r) ==
    RAdd(RMul(SafetyScore(rows, r), Frac(2, 5)),
         RMul(EnvironmentalScore(rows, r), Frac(3, 5)))

\* the row with its score columns
ScoreRow(rows, r) ==
    r @@ [AccidentRateScore |-> AccidentRateScore(rows, r),
          FatalityScore |-> FatalityScore(rows, r),
          SafetyAuditScore |-> SafetyAuditScore(r),
          CarbonEmissionsScore |-> CarbonEmissionsScore(rows, r),
          EnergyScore |-> EnergyScore(rows, r),
          RenewableEnergyScore |-> RenewableEnergyScore(r),
          WasteScore |-> WasteScore(rows, r),
          RecyclingScore |-> RecyclingScore(r),
          SafetyScore |-> SafetyScore(rows, r),
          EnvironmentalScore |-> EnvironmentalScore(rows, r),
          OverallScore |-> OverallScore(rows, r)]

\* lines 557-584: every row with its score columns, in input order
WithScores(rows) == [i \in 1..Len(rows) |-> ScoreRow(rows, rows[i])]

\* an order sort_values('Overall Score', ascending=False) can produce: the rows
\* with a number come first, by non-increasing score; the rows with NaN follow
\* in their input order (na_position='last')
RankOrder(rows, p) ==
    \A i, j \in 1..Len(rows) :
        i < j =>
            /\ rows[p[i]].OverallScore.nan => rows[p[j]].OverallScore.nan
            /\ ~RLess(rows[p[i]].OverallScore, rows[p[j]].OverallScore)
            /\ (rows[p[i]].OverallScore.nan /\ rows[p[j]].OverallScore.nan) => p[i] < p[j]

SortByOverallAscending(rows) ==
    {q \in Perms(Len(rows)) :
        \A i, j \in 1..Len(rows) :
            i < j => ~RLess(rows[q[j]].OverallScore, rows[q[i]].OverallScore)}

\* line 587: the default kind 'quicksort' is not stable, so rows with equal
\* Overall Score may come out in any order
SortByOverall(rows) == {q \in Perms(Len(rows)) : RankOrder(rows, q)}

\* the columns lines 560-570 index
ScoredColumns ==
    {"AccidentRate", "Fatalities", "SafetyAudit", "Carbon", "Energy",
     "RenewableRatio", "Waste", "Recycling"}

\* the columns of a DataFrame built from rows: the keys of the rows; a
\* DataFrame without rows has no columns
Columns(data) == UNION {DOMAIN data[i] : i \in 1..Len(data)}

\* the body of calculate_esg_scores(data), lines 557-589
Scoring(data) ==
    IF ~(ScoredColumns \subseteq Columns(data))
    THEN \* indexing a column the DataFrame does not have: data['Accident Rate (‰)']
         /\ scoreStatus' = "KeyError"
         /\ scored' = EmptyTable
         /\ order' = <<>>
    ELSE \E p \in SortByOverall(WithScores(data)) :
         /\ scoreStatus' = "returned"
         /\ order' = p
         \* reset_index(drop=True): output row k is input row p[k]
         /\ scored' = Permute(WithScores(data), p)

CalculateEsgScores ==
    /\ scoreStatus = "idle"
    /\ Scoring(table)
    /\ UNCHANGED <<table, storeVars, sessions>>

\* show_company_comparison_analysis, lines 185-198: the table that
\* get_multi_company_data returned is scored unless it is empty
ShowRankingAnalysis ==
    /\ op = "get_multi_company_data"
    /\ raised = "none"
    /\ ret # EmptyTable
    /\ scoreStatus = "idle"
    /\ table' = ret
    /\ Scoring(ret)
    /\ UNCHANGED <<storeVars, sessions>>

----------------------------------------------------------------------------
(* Inputs *)

SeqsUpTo(S, n) == UNION {[1..k -> S] : k \in 0..n}

YearStrings == {<<9, 9, 9>>, <<2, 0, 2, 5>>}

\* entries of metadata.years: str, or int
MetaYearValues == {StrVal(s) : s \in YearStrings} \cup {IntVal(2009)}

RecordCompanies == {"A", "B"}

RecordYears == {2009, 2025}

RecordValues == {1}

\* a flat record of data.json
Record(company, year, value) ==
    [company_name |-> company,
     year |-> IntVal(year),
     accident_rate |-> value,
     fatality_rate |-> 0,
     safety_inspection_compliance_rate |-> 95,
     carbon_emissions |-> 1000,
     energy_consumption |-> 50,
     renewable_energy_ratio |-> 40,
     renewable_energy_amount |-> 3,
     construction_waste |-> 200,
     recycling_rate |-> 90]

Records ==
    {Record(c, y, v) : c \in RecordCompanies, y \in RecordYears, v \in RecordValues}

Dataset(years, records) ==
    [isDict |-> TRUE, hasMeta |-> TRUE, years |-> years, companies |-> <<"A", "B">>,
     records |-> records]

Datasets ==
    {Dataset(ys, rs) : ys \in SeqsUpTo(MetaYearValues, MaxYears),
                       rs \in SeqsUpTo(Records, MaxRecords)}

\* "C" is a company without records
ArgCompanies == {"A", "B", "C"}

CompanyLists == SeqsUpTo({"A", "B"}, MaxCompanies) \cup {<<"C">>}

YearArgs == {StrVal(<<2, 0, 0, 9>>), StrVal(<<2, 0, 2, 5>>)}

OkFile(data) == [status |-> "ok", data |-> data]

BadFile(status) == [status |-> status, data |-> EmptyData]

FirstData ==
    Dataset(<<IntVal(2009), StrVal(<<2, 0, 2, 5>>)>>,
            <<Record("B", 2025, 1), Record("A", 2025, 2)>>)

SecondData ==
    Dataset(<<StrVal(<<2, 0, 2, 5>>)>>, <<Record("A", 2025, 1)>>)

StoreFiles ==
    {OkFile(FirstData), OkFile(SecondData)}
        \cup {BadFile(st) : st \in {"missing", "malformed", "denied", "undecodable"}}

\* a year argument or metadata entry that int() rejects
NotAYear == StrVal(<<10, 11, 12>>)

\* the object without some of its keys
Without(rec, keys) == [k \in DOMAIN rec \ keys |-> rec[k]]

\* a flat record whose indicators carry the names of the data model, with one
\* field more
DataModelRecord ==
    [company_name |-> "B",
     year |-> IntVal(2025),
     accident_rate |-> 2,
     fatalities |-> 1,
     safety_audit_compliance |-> 95,
     carbon_emissions |-> 2000,
     energy_consumption |-> 80,
     renewable_energy_ratio |-> 20,
     renewable_energy_amount |-> 3,
     construction_waste |-> 400,
     recycling_rate |-> 70,
     site_count |-> 12]

\* what a value under a record key of a parsed data.json can be besides a full
\* flat record: the year as a str, the amount null or left out, most fields
\* left out, the indicators named as in the data model, not an object
LooseRecords ==
    {Record("A", 2025, 1),
     [Record("A", 2025, 2) EXCEPT !.year = StrVal(<<2, 0, 2, 5>>)],
     [Record("B", 2025, 1) EXCEPT !.renewable_energy_amount = Null],
     Without(Record("B", 2025, 2), {"renewable_energy_amount"}),
     [company_name |-> "A", year |-> IntVal(2009)],
     [company_name |-> "B", accident_rate |-> 3],
     DataModelRecord,
     NotARecord}

\* the nested layout of one company: year -> safety and environment objects
NestedCompany(value) ==
    [y \in {"2025"} |->
        [safety |-> [accident_rate |-> value,
                     fatality_rate |-> 0,
                     safety_inspection_compliance_rate |-> 95],
         environment |-> [carbon_emissions |-> 1000,
                          energy_consumption |-> 50,
                          renewable_energy_ratio |-> 40,
                          renewable_energy_amount |-> 3,
                          construction_waste |-> 200,
                          recycling_rate |-> 90]]]

\* a data.json in the nested layout: the one top-level key "companies" maps
\* company -> year -> safety/environment; to the loops over data.items() its
\* value is the value under a record key
NestedSource ==
    [isDict |-> TRUE, hasMeta |-> FALSE, years |-> <<>>, companies |-> <<>>,
     records |-> <<[A |-> NestedCompany(1), B |-> NestedCompany(2)]>>]

\* the same measurements in the flat layout
FlatSource ==
    Dataset(<<StrVal(<<2, 0, 2, 5>>)>>, <<Record("A", 2025, 1), Record("B", 2025, 2)>>)

LooseYearLists == {<<>>, <<StrVal(<<2, 0, 2, 5>>)>>, <<NotAYear>>}

LooseDatasets ==
    {Dataset(ys, rs) : ys \in LooseYearLists, rs \in SeqsUpTo(LooseRecords, MaxRecords)}
        \cup {EmptyData, NotADict, NestedSource, FlatSource}

\* a year argument: a str of digits, an int, a str that is no number
LooseYearArgs == YearArgs \cup {IntVal(2025), NotAYear}

\* the indicators of the two companies of the end-to-end scenario: accident
\* rate, fatalities, safety audit compliance, carbon emissions, energy
\* consumption, renewable energy ratio, construction waste, recycling rate
AlphaIndicators == <<1, 0, 98, 1000, 50, 40, 200, 90>>

BetaIndicators == <<2, 1, 95, 2000, 80, 20, 400, 70>>

\* a record of the scenario under the keys the queries read
KeyedRecord(company, m) ==
    [company_name |-> company,
     year |-> IntVal(2025),
     accident_rate |-> m[1],
     fatality_rate |-> m[2],
     safety_inspection_compliance_rate |-> m[3],
     carbon_emissions |-> m[4],
     energy_consumption |-> m[5],
     renewable_energy_ratio |-> m[6],
     construction_waste |-> m[7],
     recycling_rate |-> m[8]]

\* the same record under the keys the scenario is written with
ScenarioRecord(company, m) ==
    [company_name |-> company,
     year |-> IntVal(2025),
     accident_rate |-> m[1],
     fatalities |-> m[2],
     safety_audit_compliance |-> m[3],
     carbon_emissions |-> m[4],
     energy_consumption |-> m[5],
     renewable_energy_ratio |-> m[6],
     construction_waste |-> m[7],
     recycling_rate |-> m[8]]

ScenarioCompanies == {"Alpha", "Beta"}

ScenarioRecords ==
    {<<KeyedRecord("Alpha", AlphaIndicators), KeyedRecord("Beta", BetaIndicators)>>,
     <<KeyedRecord("Beta", BetaIndicators), KeyedRecord("Alpha", AlphaIndicators)>>,
     <<ScenarioRecord("Alpha", AlphaIndicators), ScenarioRecord("Beta", BetaIndicators)>>,
     <<ScenarioRecord("Beta", BetaIndicators), ScenarioRecord("Alpha", AlphaIndicators)>>}

ScenarioDatasets ==
    {[isDict |-> TRUE, hasMeta |-> TRUE, years |-> ys,
      companies |-> <<"Alpha", "Beta">>, records |-> rs] :
        ys \in {<<StrVal(<<2, 0, 2, 5>>)>>, <<IntVal(2025)>>}, rs \in ScenarioRecords}

ScenarioLists == SeqsUpTo(ScenarioCompanies, MaxCompanies)

AccidentRates == {0, 2, 4}

FatalityCounts == {0, 1, 2}

\* Carbon Emissions, Energy Consumption, Construction Waste
Footprints == {<<0, 0, 0>>, <<1000, 50, 200>>, <<2000, 80, 400>>}

\* Safety Audit Compliance, Renewable Energy Ratio, Recycling Rate
Percentages == {<<95, 60, 70>>}

RowNames == <<"A", "B", "C", "D">>

Profiles ==
    {[AccidentRate |-> a, Fatalities |-> f, SafetyAudit |-> h[1],
      Carbon |-> e[1], Energy |-> e[2], RenewableRatio |-> h[2],
      RenewableAmount |-> 3, Waste |-> e[3], Recycling |-> h[3]] :
        a \in AccidentRates, f \in FatalityCounts, e \in Footprints, h \in Percentages}

\* Renewable Energy Ratio (%) below, just above and far above 66.6
RenewableRatios == {60, 67, 100}

\* snapshots that differ in the Renewable Energy Ratio only
RenewableProfiles ==
    {[AccidentRate |-> 2, Fatalities |-> 1, SafetyAudit |-> 95,
      Carbon |-> 1000, Energy |-> 50, RenewableRatio |-> h,
      RenewableAmount |-> 3, Waste |-> 200, Recycling |-> 70] : h \in RenewableRatios}

\* Renewable Energy Amount (GWh): null, zero, a number
RenewableAmounts == {Null, 0, 50}

\* snapshots that differ in the Renewable Energy Amount and the accident rate
AmountProfiles ==
    {[AccidentRate |-> a, Fatalities |-> 1, SafetyAudit |-> 95,
      Carbon |-> 1000, Energy |-> 50, RenewableRatio |-> 60,
      RenewableAmount |-> g, Waste |-> 200, Recycling |-> 70] :
        a \in AccidentRates, g \in RenewableAmounts}

\* rows that were built without one of the indicators
PartialProfiles ==
    {Without([AccidentRate |-> 2, Fatalities |-> 1, SafetyAudit |-> 95,
              Carbon |-> 1000, Energy |-> 50, RenewableRatio |-> 60,
              RenewableAmount |-> 3, Waste |-> 200, Recycling |-> 70], {c}) :
        c \in {"Carbon", "Recycling"}}

\* a snapshot: one row per company, all of one year
Tables ==
    {[i \in 1..Len(ps) |-> ps[i] @@ [Company |-> RowNames[i], Year |-> IntVal(2025)]] :
        ps \in SeqsUpTo(Profiles, MaxRows) \cup SeqsUpTo(RenewableProfiles, MaxRows)
                  \cup UNION {SeqsUpTo({p}, MaxRows) : p \in PartialProfiles}}

\* snapshots whose rows carry a null, zero or positive amount
AmountTables ==
    {[i \in 1..Len(ps) |-> ps[i] @@ [Company |-> RowNames[i], Year |-> IntVal(2025)]] :
        ps \in SeqsUpTo(AmountProfiles, MaxRows)}

----------------------------------------------------------------------------
(* Specifications *)

InitStore ==
    /\ now = 0
    /\ changedAt = 0
    /\ reads = 0
    /\ loadCache = {}
    /\ latestCache = {}
    /\ trendCache = {}
    /\ multiCache = {}
    /\ op = "none"
    /\ arg = <<>>
    /\ ret = <<>>
    /\ raised = "none"
    /\ readStatus = "none"
    /\ age = -1
    /\ target = NoneVal
    /\ calledAt = 0
    /\ sessions = [s \in Sessions |-> Waiting]

InitScore ==
    /\ scored = <<>>
    /\ order = <<>>
    /\ scoreStatus = "idle"

\* the store over time: data.json changes, the clock advances, callers load
Init ==
    /\ file \in StoreFiles
    /\ InitStore
    /\ table = EmptyTable
    /\ InitScore

Next ==
    \/ CallLoadData
    \/ CallGetCompanies
    \/ CallGetYears
    \/ CallGetLatestYearData
    \/ \E d \in TickSteps : Tick(d)
    \/ \E f \in StoreFiles : WriteFile(f)

Spec == Init /\ [][Next]_vars

\* one query of a freshly started process, over every generated data.json
InitQuery ==
    /\ file \in {OkFile(d) : d \in Datasets}
    /\ InitStore
    /\ table = EmptyTable
    /\ InitScore

FirstLatest == op = "none" /\ CallGetLatestYearData

FirstTrend == op = "none" /\ \E c \in ArgCompanies : CallGetCompanyTrendData(c)

FirstMulti ==
    /\ op = "none"
    /\ \E cs \in CompanyLists, y \in YearArgs \cup {NoneVal} :
           CallGetMultiCompanyData(cs, y)

FirstAllByYear == op = "none" /\ \E y \in YearArgs : CallGetAllCompanyDataByYear(y)

NextQuery ==
    \/ FirstLatest
    \/ FirstTrend
    \/ FirstMulti
    \/ FirstAllByYear

SpecQuery == InitQuery /\ [][NextQuery]_vars

\* one query of a freshly started process, over what json.load can return
InitLoose ==
    /\ file \in {OkFile(d) : d \in LooseDatasets}
    /\ InitStore
    /\ table = EmptyTable
    /\ InitScore

LooseLatest == op = "none" /\ CallGetLatestYearData

LooseTrend == op = "none" /\ \E c \in ArgCompanies : CallGetCompanyTrendData(c)

LooseMulti ==
    /\ op = "none"
    /\ \E cs \in CompanyLists, y \in LooseYearArgs \cup {NoneVal} :
           CallGetMultiCompanyData(cs, y)

LooseAllByYear ==
    op = "none" /\ \E y \in LooseYearArgs : CallGetAllCompanyDataByYear(y)

NextLoose ==
    \/ LooseLatest
    \/ LooseTrend
    \/ LooseMulti
    \/ LooseAllByYear

SpecLoose == InitLoose /\ [][NextLoose]_vars

\* the comparison page on a freshly started process: the snapshot of the
\* selected companies, then its ranking
InitReport ==
    /\ file \in {OkFile(d) : d \in ScenarioDatasets}
    /\ InitStore
    /\ table = EmptyTable
    /\ InitScore

ReportSnapshot ==
    /\ op = "none"
    /\ \E cs \in ScenarioLists, y \in YearArgs \cup {NoneVal} :
           CallGetMultiCompanyData(cs, y)

NextReport ==
    \/ ReportSnapshot
    \/ ShowRankingAnalysis

SpecReport == InitReport /\ [][NextReport]_vars

\* every session calls load_data() once, while the file is replaced and time
\* passes
Lookup == \E s \in Sessions : SessionLookup(s)

Read == \E s \in Sessions : SessionRead(s)

Store == \E s \in Sessions : SessionStore(s)

Replace == \E f \in StoreFiles : WriteFile(f)

Elapse == \E d \in TickSteps : Tick(d)

NextSessions ==
    \/ Lookup
    \/ Read
    \/ Store
    \/ Replace
    \/ Elapse

SpecSessions == Init /\ [][NextSessions]_vars

\* get_company_trend_data called again and again, while the file is replaced
\* and time passes
TrendCall == \E c \in RecordCompanies : CallGetCompanyTrendData(c)

NextTrend ==
    \/ TrendCall
    \/ Replace
    \/ Elapse

SpecTrend == Init /\ [][NextTrend]_vars

\* one call of calculate_esg_scores, over every generated table
InitScoring ==
    /\ file = BadFile("missing")
    /\ InitStore
    /\ table \in Tables
    /\ InitScore

NextScoring == CalculateEsgScores

SpecScore == InitScoring /\ [][NextScoring]_vars

\* one call of calculate_esg_scores, over the tables that vary the amount
InitAmount ==
    /\ file = BadFile("missing")
    /\ InitStore
    /\ table \in AmountTables
    /\ InitScore

ScoreAmounts == CalculateEsgScores

NextAmount == ScoreAmounts

SpecAmount == InitAmount /\ [][NextAmount]_vars

----------------------------------------------------------------------------
(* Properties of the query layer, checked under SpecQuery *)

Returned(name) == op = name /\ raised = "none"

\* the records of the loaded file
FileRecords == file.data.records

\* the numerically greatest entry of a non-empty year list
NumericMax(years) ==
    CHOOSE m \in {PyInt(years[i]) : i \in 1..Len(years)} :
        \A i \in 1..Len(years) : PyInt(years[i]) <= m

\* the positions of the records a snapshot for (companies, year) selects
Selected(companies, year) ==
    {k \in 1..Len(FileRecords) :
        /\ InList(FileRecords[k].company_name, companies)
        /\ FileRecords[k].year = IntVal(year)}

\* the positions of the records of one year
OfYear(year) == {k \in 1..Len(FileRecords) : FileRecords[k].year = IntVal(year)}

\* the i-th smallest element of a set of positions
Nth(S, i) == CHOOSE k \in S : Cardinality({m \in S : m < k}) = i - 1

\* the row is the projection of the record
RowOf(row, rec) ==
    /\ row.Company = rec.company_name
    /\ row.Year = rec.year
    /\ row.AccidentRate = rec.accident_rate

\* at most one record per (company, year) in the source
UniquePerCompanyYear ==
    \A k, l \in 1..Len(FileRecords) :
        (/\ FileRecords[k].company_name = FileRecords[l].company_name
         /\ FileRecords[k].year = FileRecords[l].year) => k = l

\* C1: with a non-empty metadata year list, get_latest_year_data() and
\* get_multi_company_data(companies, None) compare the records against the
\* numerically greatest entry of the list (entries compared as integers, also
\* when stored as strings) and return the records of that year.
C1_TargetIsNumericMax ==
    /\ (Returned("get_latest_year_data") /\ MetaYears(file.data) # <<>>) =>
           /\ target = IntVal(NumericMax(MetaYears(file.data)))
           /\ Len(ret) = Cardinality(OfYear(NumericMax(MetaYears(file.data))))
           /\ \A i \in 1..Len(ret) : ret[i].Year = target
    /\ (Returned("get_multi_company_data") /\ arg[2] = NoneVal
            /\ MetaYears(file.data) # <<>>) =>
           /\ target = IntVal(NumericMax(MetaYears(file.data)))
           /\ Len(ret) = Cardinality(Selected(arg[1], NumericMax(MetaYears(file.data))))
           /\ \A i \in 1..Len(ret) : ret[i].Year = target

\* a year list whose lexicographic maximum is not its numeric maximum
C1_Witness ==
    /\ Returned("get_latest_year_data")
    /\ MetaYears(file.data) = <<StrVal(<<9, 9, 9>>), StrVal(<<2, 0, 2, 5>>)>>
    /\ target = IntVal(2025)
    /\ Len(ret) = 2

\* the position of the first occurrence of a company in the `companies` argument
FirstIn(companies, c) == CHOOSE i \in 1..Len(companies) :
    companies[i] = c /\ \A j \in 1..(i - 1) : companies[j] # c

\* C2 as stated: the rows of get_multi_company_data follow the order of the
\* `companies` argument: a row whose company occurs earlier in it comes first.
C2_InputOrder ==
    Returned("get_multi_company_data") =>
        \A i, j \in 1..Len(ret) :
            i < j => FirstIn(arg[1], ret[i].Company) <= FirstIn(arg[1], ret[j].Company)

\* C2 amended: the rows of get_multi_company_data follow the order in which
\* their records appear in the Dataset, whatever the order of `companies`.
C2_DatasetOrder ==
    Returned("get_multi_company_data") =>
        /\ Len(ret) = Cardinality(Selected(arg[1], target.n))
        /\ \A i \in 1..Len(ret) :
               RowOf(ret[i], FileRecords[Nth(Selected(arg[1], target.n), i)])

\* B precedes A in the file, A precedes B in the argument
C2_Witness ==
    /\ Returned("get_multi_company_data")
    /\ arg[1] = <<"A", "B">>
    /\ Len(ret) = 2
    /\ ret[1].Company = "B"
    /\ ret[2].Company = "A"

\* the positions of the records of one company
OfCompany(c) == {k \in 1..Len(FileRecords) : FileRecords[k].company_name = c}

\* C9: get_company_trend_data(c) returns exactly the records whose company is
\* c, and, given at most one record per (company, year) in the source, in
\* strictly ascending order of year.
C9_TrendSortedByYear ==
    Returned("get_company_trend_data") =>
        /\ Len(ret) = Cardinality(OfCompany(arg[1]))
        /\ \E f \in [1..Len(ret) -> OfCompany(arg[1])] :
               /\ Injective(f)
               /\ \A i \in 1..Len(ret) : RowOf(ret[i], FileRecords[f[i]])
        /\ UniquePerCompanyYear =>
               \A i, j \in 1..Len(ret) : i < j => ret[i].Year.n < ret[j].Year.n

\* the file holds the later year first
C9_Witness ==
    /\ Returned("get_company_trend_data")
    /\ UniquePerCompanyYear
    /\ Len(FileRecords) = 2
    /\ FileRecords[1].year = IntVal(2025)
    /\ Len(ret) = 2
    /\ ret[1].Year = IntVal(2009)
    /\ ret[2].Year = IntVal(2025)

\* what C10 says of a result of get_multi_company_data
OneRowPerCompany ==
    /\ \A i, j \in 1..Len(ret) : ret[i].Company = ret[j].Company => i = j
    /\ \A i \in 1..Len(ret) :
           /\ InList(ret[i].Company, arg[1])
           /\ ret[i].Year = target
           /\ \E k \in 1..Len(FileRecords) : RowOf(ret[i], FileRecords[k])
    /\ \A i \in 1..Len(arg[1]) :
           Selected(<<arg[1][i]>>, target.n) = {} =>
               \A k \in 1..Len(ret) : ret[k].Company # arg[1][i]

\* C10 as stated: get_multi_company_data returns at most one row per requested
\* company, every row has a requested company and the requested year, and a
\* company without a record for that year contributes no row.
C10_OneRowPerCompany ==
    Returned("get_multi_company_data") => OneRowPerCompany

\* C10 amended: the same, given at most one record per (company, year) in the
\* source.
C10_OneRowPerCompanyGivenUnique ==
    (Returned("get_multi_company_data") /\ UniquePerCompanyYear) => OneRowPerCompany

\* a company listed twice, and a record to select
C10_Witness ==
    /\ Returned("get_multi_company_data")
    /\ UniquePerCompanyYear
    /\ arg[1] = <<"A", "A">>
    /\ Len(FileRecords) = 2
    /\ Len(ret) = 1

----------------------------------------------------------------------------
(* Properties of the scoring engine, checked under SpecScore *)

\* score = 100 - (value / max) * 50, as an equation between integers
IsRelativeScore(score, value, max) ==
    /\ ~score.nan
    /\ score.n * max = score.d * (100 * max - 50 * value)

\* every row's sub-score of one indicator is relative to a positive maximum
RelativeWhenPositive(col, score) ==
    ColMax(scored, col) > 0 =>
        \A k \in 1..Len(scored) :
            /\ IsRelativeScore(scored[k][score], scored[k][col], ColMax(scored, col))
            /\ scored[k][col] = ColMax(scored, col) => scored[k][score] = Num(50)

\* C3: for each lower-is-better indicator whose maximum over the scored rows
\* is positive, every row's sub-score is 100 - (value / max) * 50, and the row
\* holding the maximum scores exactly 50.
C3_RelativeScores ==
    scoreStatus = "returned" =>
        /\ RelativeWhenPositive("AccidentRate", "AccidentRateScore")
        /\ RelativeWhenPositive("Fatalities", "FatalityScore")
        /\ RelativeWhenPositive("Carbon", "CarbonEmissionsScore")
        /\ RelativeWhenPositive("Energy", "EnergyScore")
        /\ RelativeWhenPositive("Waste", "WasteScore")

\* accident rates 2 and 4 score 75 and 50
C3_Witness ==
    /\ scoreStatus = "returned"
    /\ Len(scored) = 2
    /\ \E i, j \in 1..2 :
           /\ scored[i].AccidentRate = 2
           /\ scored[i].AccidentRateScore = Num(75)
           /\ scored[j].AccidentRate = 4
           /\ scored[j].AccidentRateScore = Num(50)
           /\ scored[i].Fatalities = 1
           /\ scored[j].Fatalities = 2
           /\ scored[i].FatalityScore = Num(75)

\* every row's sub-score of one indicator is 100 when the maximum is 0
HundredWhenZero(col, score) ==
    ColMax(scored, col) = 0 =>
        \A k \in 1..Len(scored) : scored[k][score] = Num(100)

\* C4 as stated: for each lower-is-better indicator that every scored row
\* reports as 0, every row's sub-score is 100, never NaN.
C4_ZeroMaxScoresHundred ==
    scoreStatus = "returned" =>
        /\ HundredWhenZero("AccidentRate", "AccidentRateScore")
        /\ HundredWhenZero("Fatalities", "FatalityScore")
        /\ HundredWhenZero("Carbon", "CarbonEmissionsScore")
        /\ HundredWhenZero("Energy", "EnergyScore")
        /\ HundredWhenZero("Waste", "WasteScore")

\* C5: if every row of the snapshot has Fatalities = 0, every row's Fatality
\* Score is 100.
C5_NoFatalitiesScoreHundred ==
    (/\ scoreStatus = "returned"
     /\ \A k \in 1..Len(table) : table[k].Fatalities = 0) =>
        \A k \in 1..Len(scored) : scored[k].FatalityScore = Num(100)

\* two rows, no fatalities
C5_Witness ==
    /\ scoreStatus = "returned"
    /\ Len(scored) = 2
    /\ \A k \in 1..2 : scored[k].Fatalities = 0 /\ scored[k].FatalityScore = Num(100)

\* C6 as stated: the rows come back by non-increasing Overall Score, and rows
\* with equal Overall Score keep the relative order they had in the input.
C6_StableRanking ==
    scoreStatus = "returned" =>
        \A i, j \in 1..Len(scored) :
            i < j =>
                /\ ~RLess(scored[i].OverallScore, scored[j].OverallScore)
                /\ scored[i].OverallScore = scored[j].OverallScore => order[i] < order[j]

----------------------------------------------------------------------------
(* Properties of the store, checked under Spec *)

\* C7 as stated: load_data() never raises; when data.json is missing,
\* unreadable or not valid JSON it returns the empty Dataset, for which
\* get_companies() and get_years() return empty lists and a query no rows.
C7_LoadNeverRaises ==
    readStatus \notin {"none", "ok"} =>
        /\ raised = "none"
        /\ op = "load_data" => ret = EmptyData
        /\ op \in {"get_companies", "get_years", "get_latest_year_data"} => ret = <<>>

\* C8: load_data() is memoized for 300 seconds: a call made less than 300 s
\* after the load that filled the cache reads nothing and returns the stored
\* Dataset; the first call at or after expiry reads data.json again and returns
\* its current content; the entry changes on calls only, never as time passes.
C8_MemoizedForTTL ==
    [][/\ (op' = "load_data" /\ now' = now /\ file' = file) =>
              IF \E e \in loadCache : now - e.at < 300
              THEN /\ reads' = reads
                   /\ raised' = "none"
                   /\ loadCache' = loadCache
                   /\ \E e \in loadCache : ret' = e.value
              ELSE /\ reads' = reads + 1
                   /\ file.status = "ok" =>
                          /\ raised' = "none"
                          /\ ret' = file.data
                          /\ loadCache' = {[key |-> <<>>, at |-> now, value |-> file.data]}
       /\ now' # now => (reads' = reads /\ loadCache' = loadCache)]_vars

\* a call 299 s after the load is served the stored Dataset, not the new file
C8_Witness ==
    /\ op = "load_data"
    /\ readStatus = "none"
    /\ age = 299
    /\ reads = 1
    /\ ret = FirstData
    /\ file = OkFile(SecondData)

----------------------------------------------------------------------------
(* Properties of the queries over any parsed data.json, checked under SpecLoose *)

\* the record is an object whose year, read as an integer, is the year
HasYear(rec, year) ==
    /\ IsRecord(rec)
    /\ "year" \in DOMAIN rec
    /\ IntFault(rec.year) = "none"
    /\ PyInt(rec.year) = year

\* the snapshot queries, which select by year
SnapshotReturned ==
    \/ Returned("get_latest_year_data")
    \/ Returned("get_multi_company_data")
    \/ Returned("get_all_company_data_by_year")

\* C11: a snapshot query (get_latest_year_data, get_multi_company_data,
\* get_all_company_data_by_year) selects every record whose year equals the
\* target year as an integer, whether the record stores it as a str or as an
\* int (for get_multi_company_data: every such record of a listed company).
C11_YearMatchedByValue ==
    (SnapshotReturned /\ target # NoneVal) =>
        \A k \in 1..Len(FileRecords) :
            (/\ HasYear(FileRecords[k], target.n)
             /\ op = "get_multi_company_data" =>
                    InList(Get(FileRecords[k], "company_name", ""), arg[1])) =>
                \E i \in 1..Len(ret) :
                    /\ ret[i].Company = Get(FileRecords[k], "company_name", "")
                    /\ ret[i].Year = FileRecords[k].year
                    /\ ret[i].AccidentRate = Get(FileRecords[k], "accident_rate", 0)

----------------------------------------------------------------------------
(* Further properties of the scoring engine, checked under SpecScore *)

\* C12: calculate_esg_scores on a table without rows returns a table without
\* rows and raises nothing.
C12_EmptyTableScoresEmpty ==
    (scoreStatus # "idle" /\ table = EmptyTable) =>
        (scoreStatus = "returned" /\ scored = EmptyTable)

----------------------------------------------------------------------------
(* The end-to-end scenario, checked under SpecReport *)

\* the snapshot that was scored holds a row of the company
InSnapshot(company) == \E i \in 1..Len(table) : table[i].Company = company

\* C13: with Alpha (1/0/98/1000/50/40/200/90) and Beta (2/1/95/2000/80/20/400/70)
\* on record for 2025, loading, taking the snapshot of both and scoring it
\* gives Alpha an Overall Score strictly greater than Beta's and puts Alpha
\* in the first row of the ranking.
C13_AlphaOutranksBeta ==
    (/\ op = "get_multi_company_data"
     /\ scoreStatus = "returned"
     /\ InSnapshot("Alpha")
     /\ InSnapshot("Beta")) =>
        /\ scored[1].Company = "Alpha"
        /\ \A i, j \in 1..Len(scored) :
               (scored[i].Company = "Alpha" /\ scored[j].Company = "Beta") =>
                   RLess(scored[j].OverallScore, scored[i].OverallScore)

\* Beta precedes Alpha in the file and in the snapshot; Alpha is ranked first
\* with 80.65 against 56
C13_Witness ==
    /\ op = "get_multi_company_data"
    /\ scoreStatus = "returned"
    /\ FileRecords[1].company_name = "Beta"
    /\ Len(table) = 2
    /\ table[1].Company = "Beta"
    /\ scored[1].Company = "Alpha"
    /\ scored[1].OverallScore = Frac(1613, 20)
    /\ scored[2].OverallScore = Num(56)

----------------------------------------------------------------------------
(* Not-found queries, checked under SpecLoose *)

\* the parsed file has the shape of a Dataset: an object whose record values
\* are objects and whose metadata years are numbers
WellFormedFile ==
    /\ file.data.isDict
    /\ \A k \in 1..Len(FileRecords) : IsRecord(FileRecords[k])
    /\ \A i \in 1..Len(MetaYears(file.data)) :
           IntFault(MetaYears(file.data)[i]) = "none"

\* the year the call asks for
AskedYear ==
    IF op = "get_multi_company_data" THEN MultiYear(file.data, arg[2]) ELSE arg[1]

NoRecordOfCompany(companies) ==
    \A k \in 1..Len(FileRecords) :
        ~InList(Get(FileRecords[k], "company_name", ""), companies)

NoRecordOfYear(year) == \A k \in 1..Len(FileRecords) : ~HasYear(FileRecords[k], year)

NotFound ==
    \/ /\ op = "get_company_trend_data"
       /\ NoRecordOfCompany(<<arg[1]>>)
    \/ /\ op = "get_multi_company_data"
       /\ IntFault(AskedYear) = "none"
       /\ NoRecordOfCompany(arg[1]) \/ NoRecordOfYear(PyInt(AskedYear))
    \/ /\ op = "get_all_company_data_by_year"
       /\ IntFault(AskedYear) = "none"
       /\ NoRecordOfYear(PyInt(AskedYear))

\* C14: on a Dataset, get_company_trend_data for a company that occurs in no
\* record, get_multi_company_data for companies that occur in no record or
\* for a year no record has, and get_all_company_data_by_year for a year no
\* record has, return a table without rows and raise nothing.
C14_NotFoundIsEmpty ==
    (WellFormedFile /\ NotFound) => (raised = "none" /\ ret = EmptyTable)

\* records on file for 2025 only, asked for 2009
C14_Witness ==
    /\ Returned("get_all_company_data_by_year")
    /\ arg[1] = StrVal(<<2, 0, 0, 9>>)
    /\ Len(FileRecords) = 2
    /\ \A k \in 1..Len(FileRecords) : HasYear(FileRecords[k], 2025)
    /\ ret = EmptyTable

----------------------------------------------------------------------------
(* The latest-year snapshot, checked under SpecLoose *)

\* the rows of a company in the returned table
RowsOfCompany(company) == {i \in 1..Len(ret) : ret[i].Company = company}

\* C15: get_latest_year_data() returns exactly one row for each company that
\* has a record for the latest year, every row is of that year and of such a
\* company, and on an empty Dataset the table has no rows.
C15_LatestOneRowPerCompany ==
    Returned("get_latest_year_data") =>
        /\ file.data = EmptyData => ret = EmptyTable
        /\ target # NoneVal =>
               /\ \A k \in 1..Len(FileRecords) :
                      HasYear(FileRecords[k], target.n) =>
                          Cardinality(RowsOfCompany(
                              Get(FileRecords[k], "company_name", ""))) = 1
               /\ \A i \in 1..Len(ret) :
                      /\ IntFault(ret[i].Year) = "none"
                      /\ PyInt(ret[i].Year) = target.n
                      /\ \E k \in 1..Len(FileRecords) :
                             /\ HasYear(FileRecords[k], target.n)
                             /\ Get(FileRecords[k], "company_name", "") = ret[i].Company

----------------------------------------------------------------------------
(* The renewable energy sub-score, checked under SpecScore *)

\* C16: in every scored row Renewable Energy Score is Renewable Energy Ratio
\* times 1.5, without a cap: a ratio of 60 scores 90 and a ratio above 66.6
\* scores above 100.
C16_RenewableScoreUnclamped ==
    scoreStatus = "returned" =>
        \A i \in 1..Len(scored) :
            /\ scored[i].RenewableEnergyScore = Frac(3 * scored[i].RenewableRatio, 2)
            /\ scored[i].RenewableRatio = 60 => scored[i].RenewableEnergyScore = Num(90)
            /\ 10 * scored[i].RenewableRatio > 666 =>
                   RLess(Num(100), scored[i].RenewableEnergyScore)

\* one row at 60 scoring 90, one at 67 scoring 100.5
C16_Witness ==
    /\ scoreStatus = "returned"
    /\ \E i, j \in 1..Len(scored) :
           /\ scored[i].RenewableRatio = 60
           /\ scored[i].RenewableEnergyScore = Num(90)
           /\ scored[j].RenewableRatio = 67
           /\ scored[j].RenewableEnergyScore = Frac(201, 2)

----------------------------------------------------------------------------
(* The projection of a record to a row, checked under SpecLoose *)

\* the row is the record with every absent indicator set to 0, except
\* renewable_energy_amount, which is null when absent or null
ProjectedKeepingNull(row, rec) ==
    /\ row.Company = Get(rec, "company_name", "")
    /\ row.AccidentRate = Get(rec, "accident_rate", 0)
    /\ row.Fatalities = Get(rec, "fatality_rate", 0)
    /\ row.SafetyAudit = Get(rec, "safety_inspection_compliance_rate", 0)
    /\ row.Carbon = Get(rec, "carbon_emissions", 0)
    /\ row.Energy = Get(rec, "energy_consumption", 0)
    /\ row.RenewableRatio = Get(rec, "renewable_energy_ratio", 0)
    /\ row.RenewableAmount = Get(rec, "renewable_energy_amount", Null)
    /\ row.Waste = Get(rec, "construction_waste", 0)
    /\ row.Recycling = Get(rec, "recycling_rate", 0)

\* C17: every row a query returns is the projection of a record in which each
\* absent indicator other than the amount is 0 and Renewable Energy Amount is
\* null when renewable_energy_amount is absent or null in the record, never 0.
C17_ProjectionKeepsNullAmount ==
    (op # "none" /\ raised = "none") =>
        \A i \in 1..Len(ret) :
            \E k \in 1..Len(FileRecords) :
                IsRecord(FileRecords[k]) /\ ProjectedKeepingNull(ret[i], FileRecords[k])

----------------------------------------------------------------------------
(* The two layouts of data.json, checked under SpecLoose *)

\* the tables the last query can return on the flat source
OnFlatSource ==
    CASE op = "get_latest_year_data" -> {LatestYearBody(FlatSource)}
      [] op = "get_company_trend_data" -> SortByYear(TrendRows(FlatSource, arg[1]))
      [] op = "get_multi_company_data" -> {SelectMulti(FlatSource, arg[1], arg[2])}
      [] op = "get_all_company_data_by_year" -> {AllByYearBody(FlatSource, arg[1])}

\* C18: a query on a source in the nested layout returns the table it returns
\* on the flat source that holds the same measurements.
C18_NestedAsFlat ==
    (/\ file = OkFile(NestedSource)
     /\ op # "none"
     /\ op = "get_all_company_data_by_year" => IntFault(arg[1]) = "none") =>
        (raised = "none" /\ ret \in OnFlatSource)

----------------------------------------------------------------------------
(* Malformed input, checked under SpecLoose *)

\* C19: whatever json.load returned and whatever the arguments are,
\* get_latest_year_data, get_company_trend_data, get_multi_company_data and
\* get_all_company_data_by_year return a table and raise nothing.
C19_QueriesNeverRaise ==
    op \in {"get_latest_year_data", "get_company_trend_data",
            "get_multi_company_data", "get_all_company_data_by_year"} =>
        raised = "none"

----------------------------------------------------------------------------
(* Concurrent calls of load_data(), checked under SpecSessions *)

\* what one complete read of the file as it is now returns
WholeRead == IF file.status = "ok" THEN file.data ELSE EmptyData

\* what a complete read of any content data.json can have returns
WholeDatasets == {f.data : f \in StoreFiles}

\* C20: when sessions call load_data() at once during a miss, the Dataset a
\* caller gets from its read is one whole read of the file as it was then,
\* the store of a caller replaces the entry by exactly the Dataset it read
\* (the last writer wins), and no caller or entry ever holds anything but a
\* whole Dataset.
C20_WholeDatasetLastWriterWins ==
    [][/\ \A s \in Sessions :
              /\ (sessions[s].pc = "missed" /\ sessions'[s].pc = "read") =>
                     sessions'[s].data = WholeRead
              /\ (sessions[s].pc = "read" /\ sessions'[s].pc = "done") =>
                     /\ sessions'[s].data = sessions[s].data
                     /\ loadCache' = {[key |-> <<>>, at |-> now,
                                       value |-> sessions[s].data]}
              /\ (sessions[s].pc = "idle" /\ sessions'[s].pc = "done") =>
                     \E e \in loadCache : sessions'[s].data = e.value
              /\ (sessions'[s].pc \in {"read", "done"} /\ sessions'[s].raised = "none") =>
                     sessions'[s].data \in WholeDatasets
       /\ Cardinality(loadCache') <= 1
       /\ \A e \in loadCache' : e.value \in WholeDatasets
       /\ (\A s \in Sessions : sessions'[s].pc = sessions[s].pc) =>
              loadCache' = loadCache]_vars

\* both sessions missed at time 0 and read different contents; the first to
\* read stored last, and its Dataset is the entry
C20_Witness ==
    /\ now = 0
    /\ reads = 2
    /\ sessions[1] = [pc |-> "done", data |-> FirstData, raised |-> "none"]
    /\ sessions[2] = [pc |-> "done", data |-> SecondData, raised |-> "none"]
    /\ file = OkFile(SecondData)
    /\ loadCache = {[key |-> <<>>, at |-> 0, value |-> FirstData]}

----------------------------------------------------------------------------
(* Repeated trend queries, checked under SpecTrend *)

\* the step is a call of get_company_trend_data with the arguments of the
\* call before it, which returned, and it returns too
TrendCalledAgain ==
    /\ Returned("get_company_trend_data")
    /\ op' = "get_company_trend_data"
    /\ arg' = arg
    /\ raised' = "none"
    /\ now' = now
    /\ file' = file

\* C21 as stated: two calls of get_company_trend_data with the same company
\* made within 300 s of each other return equal tables.
C21_EqualWithinTTLOfEachOther ==
    [][(TrendCalledAgain /\ now - calledAt < TTL) => ret' = ret]_vars

\* C21 amended: a call of get_company_trend_data made less than 300 s after
\* the table for that company was computed returns the table the call before
\* it with the same company returned, whatever has happened to the file.
C21_EqualWithinTTLOfEntry ==
    [][(/\ TrendCalledAgain
        /\ \E e \in trendCache : e.key = arg /\ now < e.at + TTL) =>
           (ret' = ret /\ reads' = reads)]_vars

\* the table for A was computed at 0 from the first file; the file was then
\* replaced, and a call 299 s later still returns that table
C21_Witness ==
    /\ Returned("get_company_trend_data")
    /\ arg = <<"A">>
    /\ now = 299
    /\ calledAt = 299
    /\ file = OkFile(SecondData)
    /\ reads = 1
    /\ Len(ret) = 1
    /\ ret[1].AccidentRate = 2

----------------------------------------------------------------------------
(* Category and overall scores, checked under SpecScore *)

\* the two scores are the same number, or both NaN
SameScore(a, b) == (a.nan /\ b.nan) \/ (~a.nan /\ ~b.nan /\ a.n * b.d = b.n * a.d)

\* C22: in every scored row three times Safety Score is Accident Rate Score +
\* Fatality Score + Safety Audit Score, five times Environmental Score is
\* Carbon Emissions Score + Energy Score + Renewable Energy Score + Waste
\* Score + Recycling Score, Overall Score is Safety Score * 0.4 +
\* Environmental Score * 0.6, and Safety Audit Score and Recycling Score are
\* the raw percentages.
C22_MeansAndWeights ==
    scoreStatus = "returned" =>
        \A i \in 1..Len(scored) :
            LET r == scored[i] IN
            /\ SameScore(RMul(Num(3), r.SafetyScore),
                         RAdd(r.AccidentRateScore,
                              RAdd(r.FatalityScore, r.SafetyAuditScore)))
            /\ SameScore(RMul(Num(5), r.EnvironmentalScore),
                         RAdd(r.CarbonEmissionsScore,
                              RAdd(r.EnergyScore,
                                   RAdd(r.RenewableEnergyScore,
                                        RAdd(r.WasteScore, r.RecyclingScore)))))
            /\ SameScore(RMul(Num(10), r.OverallScore),
                         RAdd(RMul(Num(4), r.SafetyScore),
                              RMul(Num(6), r.EnvironmentalScore)))
            /\ r.SafetyAuditScore = Num(r.SafetyAudit)
            /\ r.RecyclingScore = Num(r.Recycling)

\* one row 2/1/95/1000/50/60/200/70: Safety 65, Environmental 62, Overall 63.2
C22_Witness ==
    /\ scoreStatus = "returned"
    /\ Len(scored) = 1
    /\ scored[1].SafetyScore = Num(65)
    /\ scored[1].EnvironmentalScore = Num(62)
    /\ scored[1].OverallScore = Frac(316, 5)

----------------------------------------------------------------------------
(* A table of one row, checked under SpecScore *)

\* C23 as stated: in a scored table of exactly one row each of the five
\* lower-is-better sub-scores is exactly 50, whatever the row's values are.
C23_SingleRowScoresFifty ==
    (scoreStatus = "returned" /\ Len(scored) = 1) =>
        /\ scored[1].AccidentRateScore = Num(50)
        /\ scored[1].FatalityScore = Num(50)
        /\ scored[1].CarbonEmissionsScore = Num(50)
        /\ scored[1].EnergyScore = Num(50)
        /\ scored[1].WasteScore = Num(50)

\* C23 amended: in a scored table of exactly one row each lower-is-better
\* sub-score whose indicator is positive is exactly 50, and with no
\* fatalities the Fatality Score is 100.
C23_SingleRowPositiveScoresFifty ==
    (scoreStatus = "returned" /\ Len(scored) = 1) =>
        /\ scored[1].AccidentRate > 0 => scored[1].AccidentRateScore = Num(50)
        /\ scored[1].Fatalities > 0 => scored[1].FatalityScore = Num(50)
        /\ scored[1].Fatalities = 0 => scored[1].FatalityScore = Num(100)
        /\ scored[1].Carbon > 0 => scored[1].CarbonEmissionsScore = Num(50)
        /\ scored[1].Energy > 0 => scored[1].EnergyScore = Num(50)
        /\ scored[1].Waste > 0 => scored[1].WasteScore = Num(50)

\* one row with every lower-is-better indicator positive
C23_Witness ==
    /\ scoreStatus = "returned"
    /\ Len(scored) = 1
    /\ scored[1].AccidentRate = 4
    /\ scored[1].Fatalities = 2
    /\ scored[1].Carbon = 2000
    /\ scored[1].AccidentRateScore = Num(50)
    /\ scored[1].FatalityScore = Num(50)
    /\ scored[1].CarbonEmissionsScore = Num(50)
    /\ scored[1].EnergyScore = Num(50)
    /\ scored[1].WasteScore = Num(50)

----------------------------------------------------------------------------
(* A table without one of the indicators, checked under SpecScore *)

\* the score columns calculate_esg_scores adds
ScoreColumns ==
    {"AccidentRateScore", "FatalityScore", "SafetyAuditScore",
     "CarbonEmissionsScore", "EnergyScore", "RenewableEnergyScore", "WasteScore",
     "RecyclingScore", "SafetyScore", "EnvironmentalScore", "OverallScore"}

\* the table with 0 in every indicator a row does not have
FilledWithZero(data) ==
    [i \in 1..Len(data) |->
        data[i] @@ [c \in ScoredColumns \ DOMAIN data[i] |-> 0]]

\* C24: given a table whose rows lack a declared numeric indicator,
\* calculate_esg_scores raises nothing and returns for every row the scores
\* computed with 0 for that indicator.
C24_MissingIndicatorScoredAsZero ==
    (/\ scoreStatus # "idle"
     /\ table # EmptyTable
     /\ ~(ScoredColumns \subseteq Columns(table))) =>
        /\ scoreStatus = "returned"
        /\ Len(scored) = Len(table)
        /\ \A k \in 1..Len(scored) : \A c \in ScoreColumns :
               scored[k][c] =
                   ScoreRow(FilledWithZero(table), FilledWithZero(table)[order[k]])[c]

----------------------------------------------------------------------------
(* The field names of the data model, checked under SpecLoose *)

\* the indicator fields of the data model
DataModelFields ==
    {"accident_rate", "fatalities", "safety_audit_compliance", "carbon_emissions",
     "energy_consumption", "renewable_energy_ratio", "renewable_energy_amount",
     "construction_waste", "recycling_rate"}

\* the record is an object that names its indicators as in the data model
NamedAsDataModel(rec) ==
    /\ IsRecord(rec)
    /\ {"company_name", "year"} \cup DataModelFields \subseteq DOMAIN rec

\* each column of the row carries the record's field of the data model
CarriesDataModelFields(row, rec) ==
    /\ row.Company = rec.company_name
    /\ row.Year = rec.year
    /\ row.AccidentRate = rec.accident_rate
    /\ row.Fatalities = rec.fatalities
    /\ row.SafetyAudit = rec.safety_audit_compliance
    /\ row.Carbon = rec.carbon_emissions
    /\ row.Energy = rec.energy_consumption
    /\ row.RenewableRatio = rec.renewable_energy_ratio
    /\ row.RenewableAmount = rec.renewable_energy_amount
    /\ row.Waste = rec.construction_waste
    /\ row.Recycling = rec.recycling_rate

\* C25: when every record of the file names its indicators as in the data
\* model (accident_rate, fatalities, safety_audit_compliance, ...), every row
\* a query returns carries, column by column, the values of one of the
\* records; Fatalities is the record's fatalities and Safety Audit Compliance
\* its safety_audit_compliance; a field outside the data model changes nothing.
C25_DataModelNamesProjected ==
    (/\ op # "none"
     /\ raised = "none"
     /\ \A k \in 1..Len(FileRecords) : NamedAsDataModel(FileRecords[k])) =>
        \A i \in 1..Len(ret) :
            \E k \in 1..Len(FileRecords) : CarriesDataModelFields(ret[i], FileRecords[k])

----------------------------------------------------------------------------
(* The display-only column, checked under SpecAmount *)

\* the tables that differ from the table in Renewable Energy Amount (GWh) only
DifferOnlyInAmount(data) ==
    {[i \in 1..Len(data) |-> [data[i] EXCEPT !.RenewableAmount = g[i]]] :
        g \in [1..Len(data) -> RenewableAmounts]}

\* the score columns of a scored row
ScoresOf(row) == [c \in ScoreColumns |-> row[c]]

\* C26: a table that differs from the scored table only in Renewable Energy
\* Amount (null, zero or a number in any row) gets the same sub-scores,
\* category scores and Overall Score in every row and the same ranking: the
\* sort can produce the same orders, and in the order it produced the output
\* rows carry the same scores.
C26_AmountNeverScored ==
    scoreStatus = "returned" =>
        LET own == WithScores(table) \o <<>>
            ranks == SortByOverall(own)
        IN  \A other \in DifferOnlyInAmount(table) :
                LET rescored == WithScores(other) \o <<>> IN
                /\ \A i \in 1..Len(table) : ScoresOf(rescored[i]) = ScoresOf(own[i])
                /\ SortByOverall(rescored) = ranks
                /\ \A k \in 1..Len(scored) :
                       ScoresOf(rescored[order[k]]) = ScoresOf(scored[k])

\* a null amount in the first row, 50 GWh in the second, which ranks first
C26_Witness ==
    /\ scoreStatus = "returned"
    /\ Len(table) = 2
    /\ table[1].RenewableAmount = Null
    /\ table[2].RenewableAmount = 50
    /\ order = <<2, 1>>
    /\ RLess(scored[2].OverallScore, scored[1].OverallScore)

----------------------------------------------------------------------------
(* The age of a query result, checked under Spec *)

\* C27: when get_latest_year_data() returns more than 300 s after data.json
\* was last written (the file is readable), the table holds the rows of the
\* file as it is now, the file get_years() and get_companies() answer from at
\* that moment: it was not built from a read that is more than 300 s old.
C27_NoResultOutlivesTTL ==
    (/\ Returned("get_latest_year_data")
     /\ calledAt - changedAt > TTL
     /\ ReadFile.raised = "none") =>
        ret = LatestYearBody(ReadFile.value)

----------------------------------------------------------------------------
(* A failed load, checked under Spec *)

\* a step that is a call of load_data()
LoadDataCalled == op' = "load_data" /\ now' = now /\ file' = file

\* the entry of load_data holds the empty Dataset: the read that filled it
\* found data.json missing or malformed
FailedLoadHeld == \E e \in loadCache : e.value = EmptyData

\* C28: while load_data holds the empty Dataset of a failed read, a call made
\* less than 300 s after that read returns the empty Dataset, opens nothing
\* and leaves the entry alone, whatever data.json has become; a call made
\* 300 s after it or later opens data.json and, unless that raises, returns
\* what the file holds now.
C28_FailedLoadMemoized ==
    [][(LoadDataCalled /\ FailedLoadHeld) =>
          IF now < CacheEntry(loadCache, <<>>).at + TTL
          THEN /\ ret' = EmptyData
               /\ raised' = "none"
               /\ reads' = reads
               /\ readStatus' = "none"
               /\ loadCache' = loadCache
          ELSE /\ reads' = reads + 1
               /\ readStatus' = file.status
               /\ raised' = ReadFile.raised
               /\ raised' = "none" => ret' = ReadFile.value]_vars

\* 299 s after the one failed read load_data() still answers with the empty
\* Dataset, although data.json has been valid since the first second
C28_Witness ==
    /\ op = "load_data"
    /\ ret = EmptyData
    /\ raised = "none"
    /\ readStatus = "none"
    /\ age = 299
    /\ reads = 1
    /\ changedAt = 0
    /\ file = OkFile(FirstData)

----------------------------------------------------------------------------
(* The frame of calculate_esg_scores, checked under SpecScore *)

\* the scored row without its score columns
RawOf(row) == [c \in DOMAIN row \ ScoreColumns |-> row[c]]

\* the rows are in ranking order: Overall Score does not increase from one
\* position to the next, rows without a score come last
InRankingOrder(rows) ==
    \A i, j \in 1..Len(rows) :
        i < j =>
            /\ rows[i].OverallScore.nan => rows[j].OverallScore.nan
            /\ ~RLess(rows[i].OverallScore, rows[j].OverallScore)

\* C29: a call of calculate_esg_scores that returns leaves the table it was
\* given as it was; the table it returns has as many rows, its rows without
\* the score columns are the input rows rearranged by a permutation, every
\* row has the eleven score columns and no other new one, and position
\* 1..n of the output is the ranking order.
C29_InputKeptOutputPermuted ==
    [][(scoreStatus = "idle" /\ scoreStatus' = "returned") =>
          /\ table' = table
          /\ Len(scored') = Len(table)
          /\ \E p \in Perms(Len(table)) :
                 \A k \in 1..Len(table) : RawOf(scored'[k]) = table[p[k]]
          /\ \A k \in 1..Len(table) :
                 /\ ScoreColumns \subseteq DOMAIN scored'[k]
                 /\ ScoreColumns \cap DOMAIN table[order'[k]] = {}
          /\ InRankingOrder(scored')]_vars

\* the second input row is the first output row, the input still has it second
C29_Witness ==
    /\ scoreStatus = "returned"
    /\ Len(table) = 2
    /\ table[1].Company = "A"
    /\ table[2].Company = "B"
    /\ scored[1].Company = "B"
    /\ scored[2].Company = "A"
    /\ RLess(scored[2].OverallScore, scored[1].OverallScore)

----------------------------------------------------------------------------
(* Agreement of the snapshot queries, checked under SpecQuery *)

\* the year list of the loaded file
FileYears == MetaYears(file.data)

\* what get_all_company_data_by_year(Y) returns on the loaded file, Y the
\* numerically greatest entry of its year list
RowsOfLatestYear == AllByYearBody(file.data, IntVal(NumericMax(FileYears)))

\* the rows of the table whose company is listed, in the order of the table
OfListed(rows, companies) ==
    SelectRows([i \in 1..Len(rows) |-> InList(rows[i].Company, companies)], rows)

\* C30: on a file with a non-empty year list whose numeric maximum is Y,
\* get_latest_year_data() returns the table get_all_company_data_by_year(Y)
\* returns, row for row; get_multi_company_data(C, None) returns the rows of
\* that table whose company is in C, in the same order; and
\* get_all_company_data_by_year(Y) returns the table of
\* get_latest_year_data().  Every row is the projection of a record entry.
C30_SnapshotQueriesAgree ==
    FileYears # <<>> =>
        /\ Returned("get_latest_year_data") =>
               /\ AllByYearFault(file.data, IntVal(NumericMax(FileYears))) = "none"
               /\ ret = RowsOfLatestYear
        /\ (Returned("get_multi_company_data") /\ arg[2] = NoneVal) =>
               ret = OfListed(RowsOfLatestYear, arg[1])
        /\ (/\ Returned("get_all_company_data_by_year")
            /\ PyInt(arg[1]) = NumericMax(FileYears)) =>
               ret = LatestYearBody(file.data)
        /\ (op # "none" /\ raised = "none") =>
               \A i \in 1..Len(ret) :
                   \E k \in 1..Len(FileRecords) :
                       ret[i] = ProjectRow(FileRecords[k], FileRecords[k].company_name,
                                           FileRecords[k].year)

\* the year list is <<"999", "2025">>: the latest year is 2025, one of the two
\* records is of that year and get_latest_year_data() returned its row
C30_Witness ==
    /\ Returned("get_latest_year_data")
    /\ FileYears = <<StrVal(<<9, 9, 9>>), StrVal(<<2, 0, 2, 5>>)>>
    /\ Len(FileRecords) = 2
    /\ Len(ret) = 1
    /\ ret[1].Year = IntVal(2025)

====
